---- MODULE Spec2Model ----
(***************************************************************************)
(* Patch finalization and reconfiguration in evergreen.                    *)
(*                                                                         *)
(* The model follows UIServer.schedulePatch (ui/patch.go) and the model    *)
(* package's patch lifecycle (AddNewTasksForPatch, AddNewBuildsForPatch,   *)
(* FinalizePatch).  The store is the four collections the handlers write:  *)
(* the patch document, the version document, the builds and the tasks.     *)
(* Each request is a process whose steps are the handler's store           *)
(* operations, so two requests on the same patch interleave between them.  *)
(***************************************************************************)
EXTENDS Integers, Sequences, FiniteSets, TLC

\* ------------------------------------------------------------------ bounds
\* Requests issued in one behaviour.
MaxCalls == 3
\* Requests being handled at the same time.
MaxInFlight == 2
\* Store operations that fail with a database error in one behaviour.
MaxFaults == 1

\* ---------------------------------------------------------------- projects
NoTasks == <<>>

Ref(name, variant) == [Name |-> name, Variant |-> variant]

\* linux has compile and test, osx has compile only; test requires compile
\* of its own variant.
ProjectA ==
  [ BuildVariants |-> [linux |-> <<"compile", "test">>, osx |-> <<"compile">>],
    Tasks |-> [compile |-> NoTasks, test |-> <<Ref("compile", "")>>] ]

\* both variants have both tasks; test requires compile of the linux variant.
ProjectB ==
  [ BuildVariants |-> [linux |-> <<"compile", "test">>, osx |-> <<"compile", "test">>],
    Tasks |-> [compile |-> NoTasks, test |-> <<Ref("compile", "linux")>>] ]

\* as ProjectA, but test requires compile of a variant the project lacks.
ProjectC ==
  [ BuildVariants |-> [linux |-> <<"compile", "test">>, osx |-> <<"compile">>],
    Tasks |-> [compile |-> NoTasks, test |-> <<Ref("compile", "staging")>>] ]

Projects == {ProjectA, ProjectB, ProjectC}

VT(variant, taskNames) == [Variant |-> variant, Tasks |-> taskNames]

\* The request bodies a client posts: lists of VariantTasks.
Bodies ==
  { <<VT("linux", <<"compile">>)>>,
    <<VT("linux", <<"test">>)>>,
    <<VT("osx", <<"compile">>)>>,
    <<VT("osx", <<"test">>)>>,
    <<VT("linux", <<"compile">>), VT("osx", <<"compile">>)>>,
    <<VT("linux", <<"test">>), VT("osx", <<"compile">>)>> }

\* ---------------------------------------------------------- pure functions
Range(s) == {s[i] : i \in DOMAIN s}

SliceContains(slice, item) == \E i \in DOMAIN slice : slice[i] = item

\* s followed by the items of t that s does not hold yet ($addToSet with $each).
RECURSIVE AddToSet(_, _)
AddToSet(s, t) ==
  IF t = <<>> THEN s
  ELSE AddToSet(IF SliceContains(s, Head(t)) THEN s ELSE Append(s, Head(t)), Tail(t))

Tv(variant, taskName) == [Variant |-> variant, TaskName |-> taskName]

PairsOfVariant(vt) == [i \in DOMAIN vt.Tasks |-> Tv(vt.Variant, vt.Tasks[i])]

RECURSIVE VariantTasksToTVPairs(_)
VariantTasksToTVPairs(in) ==
  IF in = <<>> THEN <<>>
  ELSE PairsOfVariant(Head(in)) \o VariantTasksToTVPairs(Tail(in))

HasVariant(project, variant) == variant \in DOMAIN project.BuildVariants

HasTask(project, variant, taskName) ==
  /\ HasVariant(project, variant)
  /\ SliceContains(project.BuildVariants[variant], taskName)

\* The declared dependencies of a pair, each resolved to a concrete variant.
DepsOf(project, pair) ==
  IF pair.TaskName \notin DOMAIN project.Tasks THEN <<>>
  ELSE LET refs == project.Tasks[pair.TaskName]
       IN [i \in DOMAIN refs |->
             Tv(IF refs[i].Variant = "" THEN pair.Variant ELSE refs[i].Variant,
                refs[i].Name)]

\* Work-list traversal: a pair already in the output is not expanded again.
RECURSIVE IncludeLoop(_, _, _)
IncludeLoop(project, out, queue) ==
  IF queue = <<>> THEN out
  ELSE IF SliceContains(out, Head(queue))
       THEN IncludeLoop(project, out, Tail(queue))
       ELSE IncludeLoop(project, Append(out, Head(queue)),
                        Tail(queue) \o DepsOf(project, Head(queue)))

Include(project, seed) == IncludeLoop(project, <<>>, seed)

IncludeNothing(project, tvpairs) == tvpairs

IncludeAppended(project, tvpairs) == tvpairs \o Include(project, tvpairs)

IncludePatchDependencies(project, tvpairs) == Include(project, tvpairs)

\* The task names and the variant names of a list of pairs, each once, in
\* order of first appearance.
TaskNamesOf(pairs) == AddToSet(<<>>, [i \in DOMAIN pairs |-> pairs[i].TaskName])

VariantsOf(pairs) == AddToSet(<<>>, [i \in DOMAIN pairs |-> pairs[i].Variant])

\* ------------------------------------------------------------ identifiers
VersionId == "v0"

NoTaskId == <<"", "", "">>

\* Deterministic composition of version id, variant name and task name.
TaskId(versionId, variant, taskName) == <<versionId, variant, taskName>>

BuildId(versionId, variant) == <<versionId, variant>>

ProjectPairs(project) ==
  {pr \in [Variant : DOMAIN project.BuildVariants, TaskName : DOMAIN project.Tasks] :
     HasTask(project, pr.Variant, pr.TaskName)}

\* The id table of a patch: the pairs of the patch's variants and tasks.
NewPatchTaskIdTable(project, v, p) ==
  [ Version |-> v.Id,
    Pairs |-> {pr \in ProjectPairs(project) :
                 /\ SliceContains(p.BuildVariants, pr.Variant)
                 /\ SliceContains(p.Tasks, pr.TaskName)} ]

\* The id table of a whole version: every pair of the project.
NewTaskIdTable(project, v) ==
  [ Version |-> v.Id,
    Pairs |-> ProjectPairs(project) ]

GetId(tt, pair) ==
  IF pair \in tt.Pairs THEN TaskId(tt.Version, pair.Variant, pair.TaskName)
  ELSE NoTaskId

\* -------------------------------------------------------- build materializer
NewTask(project, v, tt, variant, buildId, activated, taskName) ==
  LET deps == DepsOf(project, Tv(variant, taskName))
  IN [ Id |-> TaskId(v.Id, variant, taskName),
       BuildId |-> buildId,
       Version |-> v.Id,
       BuildVariant |-> variant,
       DisplayName |-> taskName,
       DependsOn |-> [i \in DOMAIN deps |-> GetId(tt, deps[i])],
       Activated |-> activated ]

TaskIdsFor(v, variant, taskNames) ==
  [i \in DOMAIN taskNames |-> TaskId(v.Id, variant, taskNames[i])]

InsertTasks(project, v, tt, variant, buildId, activated, taskNames, tasks) ==
  LET new == {NewTask(project, v, tt, variant, buildId, activated, taskNames[i]) :
                i \in DOMAIN taskNames}
  IN [id \in DOMAIN tasks \cup {t.Id : t \in new} |->
        IF id \in DOMAIN tasks THEN tasks[id]
        ELSE CHOOSE t \in new : t.Id = id]

MaterializeErrorBlind(project, v, variant, taskNames, tasks) ==
  IF ~HasVariant(project, variant) THEN "UnknownVariant"
  ELSE IF \E i \in DOMAIN taskNames : ~HasTask(project, variant, taskNames[i])
       THEN "UnknownTask"
  ELSE ""

MaterializeError(project, v, variant, taskNames, tasks) ==
  IF ~HasVariant(project, variant) THEN "UnknownVariant"
  ELSE IF \E i \in DOMAIN taskNames : ~HasTask(project, variant, taskNames[i])
       THEN "UnknownTask"
  ELSE IF \E i \in DOMAIN taskNames : TaskId(v.Id, variant, taskNames[i]) \in DOMAIN tasks
       THEN "StoreConflict"
  ELSE ""

\* One Build and one Task per name; nothing is written when it fails.
CreateBuildFromVersion(project, v, tt, buildName, activated, taskNames, bs, ts) ==
  LET id == BuildId(v.Id, buildName)
      e == IF HasVariant(project, buildName) /\ id \in DOMAIN bs THEN "StoreConflict"
           ELSE MaterializeError(project, v, buildName, taskNames, ts)
  IN IF e # "" THEN [err |-> e, buildId |-> id, builds |-> bs, tasks |-> ts]
     ELSE [ err |-> "",
            buildId |-> id,
            builds |-> bs @@ (id :> [ Id |-> id,
                                      Version |-> v.Id,
                                      BuildVariant |-> buildName,
                                      TaskIds |-> TaskIdsFor(v, buildName, taskNames),
                                      Activated |-> activated ]),
            tasks |-> InsertTasks(project, v, tt, buildName, id, activated, taskNames, ts) ]

\* The Materializer's per-task creation for an existing build: the new Task
\* records are inserted and their ids appended to the Build's TaskIds.
AddTasksToBuild(b, project, v, taskNames, bs, ts) ==
  LET e == IF b.Id \notin DOMAIN bs THEN "NotFound"
           ELSE MaterializeError(project, v, b.BuildVariant, taskNames, ts)
  IN IF e # "" THEN [err |-> e, builds |-> bs, tasks |-> ts]
     ELSE [ err |-> "",
            builds |-> [bs EXCEPT ![b.Id].TaskIds =
                          @ \o TaskIdsFor(v, b.BuildVariant, taskNames)],
            tasks |-> InsertTasks(project, v, NewTaskIdTable(project, v),
                                  b.BuildVariant, b.Id, b.Activated, taskNames, ts) ]

\* --------------------------------------------------------------- the state
VARIABLES
  project,   \* the project the patch's PatchedConfig unmarshals to
  patch,     \* the patch document
  versions,  \* the version collection: version id -> document
  builds,    \* the build collection: build id -> document
  tasks,     \* the task collection: task id -> document
  req,       \* the requests: each one's position and local values
  faults,    \* store operations that have failed so far
  removed,   \* the patch document has been removed from its collection
  di,        \* the dependencyIncluder of one request, its traversal unfolded
  s3,        \* one execution of the agent's S3 put command
  conv       \* one call of TVPairsToVariantTasks: its input and its result

vars == <<project, patch, versions, builds, tasks, req, faults, removed, di, s3, conv>>

Calls == 1..MaxCalls

NilVersion == [Id |-> "", BuildIds |-> <<>>, BuildVariants |-> <<>>]

PendingPatch ==
  [ Version |-> "",
    VariantsTasks |-> <<>>,
    Tasks |-> <<>>,
    BuildVariants |-> <<>>,
    Activated |-> FALSE,
    Description |-> "as submitted" ]

IdleReq ==
  [ pc |-> "idle",
    entry |-> "",
    path |-> "",
    body |-> <<>>,
    p |-> PendingPatch,
    pv |-> NilVersion,
    pairs |-> <<>>,
    newTasks |-> <<>>,
    newVariants |-> <<>>,
    idx |-> 0,
    newBuildIds |-> <<>>,
    newBuildStatuses |-> <<>>,
    err |-> "",
    created |-> {},
    before |-> {} ]

\* The request struct schedulePatch decodes into, and the dependencyIncluder
\* working on its pairs.
IdleDi ==
  [ pc |-> "idle",
    body |-> <<>>,
    err |-> "",
    VariantsTasks |-> <<>>,
    Variants |-> <<>>,
    Tasks |-> <<>>,
    seed |-> <<>>,
    queue |-> <<>>,
    out |-> <<>>,
    visits |-> 0,
    pairs |-> <<>> ]

\* No call of TVPairsToVariantTasks has been made.
IdleConv == [pc |-> "idle", in |-> <<>>, out |-> <<>>]

\* The S3 put command before Execute is called on it.
IdleS3 ==
  [ pc |-> "idle",        \* Execute: idle, execute, select, returned
    put |-> "none",       \* the goroutine running PutWithRetry
    Optional |-> FALSE,
    Multi |-> FALSE,      \* local_files_include_filter is given
    Runs |-> FALSE,       \* the command runs for the task's build variant
    Exists |-> FALSE,     \* the local file exists
    attempts |-> 0,       \* calls of Put
    retryFail |-> FALSE,
    err |-> "",           \* the error the retry returned
    result |-> "",        \* the value PutWithRetry returns
    attached |-> 0,       \* calls of AttachTaskFiles
    skipped |-> FALSE,    \* the skip of the optional file was logged
    stop |-> FALSE,       \* a value waits on the stop channel
    ret |-> "none" ]      \* the value Execute returned

Init ==
  /\ project \in Projects
  /\ patch = PendingPatch
  /\ versions = <<>>
  /\ builds = <<>>
  /\ tasks = <<>>
  /\ req = [r \in Calls |-> IdleReq]
  /\ faults = 0
  /\ removed = FALSE
  /\ di = IdleDi
  /\ s3 = IdleS3
  /\ conv = IdleConv

InFlight == {r \in Calls : req[r].pc \notin {"idle", "done"}}

Finished == {r \in Calls : req[r].pc = "done"}

\* The request returns err to its caller.
Return(r, err) == [req[r] EXCEPT !.pc = "done", !.idx = 0, !.err = err]

\* What the project context holds when the handler starts: the patch and,
\* when the patch names a version that exists, that version.
LoadVersion == IF patch.Version \in DOMAIN versions THEN versions[patch.Version] ELSE NilVersion

\* ------------------------------------------------------------ schedulePatch
\* A client posts `body`; the project context is loaded for the request.
StartSchedule(r, body) ==
  /\ req[r].pc = "idle"
  /\ \A q \in Calls : q < r => req[q].pc # "idle"
  /\ Cardinality(InFlight) < MaxInFlight
  /\ req' = [req EXCEPT ![r] = [@ EXCEPT !.pc = "reload",
                                         !.entry = "schedulePatch",
                                         !.body = body,
                                         !.p = patch,
                                         !.pv = LoadVersion,
                                         !.before = Finished]]
  /\ UNCHANGED <<project, patch, versions, builds, tasks, faults, removed, di, s3, conv>>

\* The pairs of the request: the explicit form when it is not empty, else the
\* cross product of the legacy lists.
RequestPairs(variantsTasks, variants, taskNames) ==
  IF Len(variantsTasks) > 0 THEN VariantTasksToTVPairs(variantsTasks)
  ELSE VariantTasksToTVPairs([i \in DOMAIN variants |-> VT(variants[i], taskNames)])

\* Which protocol schedulePatch runs for the patch it reloaded.
ChoosePathByTasks(p) == IF Len(p.Tasks) > 0 THEN "Extend" ELSE "Finalize"

ChoosePath(p) == IF p.Version # "" THEN "Extend" ELSE "Finalize"

\* The patch is read again, the body decoded into the pairs and their
\* dependencies, and the description set.
ReloadPatch(r) ==
  /\ req[r].pc = "reload"
  /\ LET p == [patch EXCEPT !.Description = ""]
         pairs == IncludePatchDependencies(project, RequestPairs(req[r].body, <<>>, <<>>))
         path == ChoosePath(p)
     IN /\ patch' = p
        /\ req' = [req EXCEPT ![r] =
             IF path = "Extend" /\ req[r].pv = NilVersion
             THEN [Return(r, "VersionNotFound") EXCEPT !.p = p, !.pairs = pairs, !.path = path]
             ELSE [@ EXCEPT !.p = p, !.pairs = pairs, !.path = path,
                            !.pc = IF path = "Extend" THEN "addTasks" ELSE "setVariantsTasks"]]
  /\ UNCHANGED <<project, versions, builds, tasks, faults, removed, di, s3, conv>>

\* ------------------------------------------------------------------ Extend
\* The names of `names` that `have` does not contain, in order.
RECURSIVE Missing(_, _)
Missing(names, have) ==
  IF names = <<>> THEN <<>>
  ELSE (IF SliceContains(have, Head(names)) THEN <<>> ELSE <<Head(names)>>)
       \o Missing(Tail(names), have)

\* AddNewTasksForPatch, its first half: the new task names are computed and
\* the requested names added to the patch document.
NewTasksUnfiltered(p, taskNames) == taskNames

NewTasks(p, taskNames) == Missing(taskNames, p.Tasks)

AddTasks(p, taskNames) == [p EXCEPT !.Tasks = AddToSet(@, taskNames)]

AddNewTasksForPatch(r) ==
  /\ req[r].pc = "addTasks"
  /\ LET taskNames == TaskNamesOf(req[r].pairs)
         newTasks == NewTasks(req[r].p, taskNames)
     IN /\ patch' = AddTasks(patch, taskNames)
        /\ req' = [req EXCEPT ![r] =
             [@ EXCEPT !.p = AddTasks(@, taskNames),
                       !.newTasks = newTasks,
                       !.idx = 1,
                       !.pc = IF Len(newTasks) > 0 /\ Len(req[r].pv.BuildIds) > 0
                              THEN "addTasksToBuild" ELSE "addBuildVariants"]]
  /\ UNCHANGED <<project, versions, builds, tasks, faults, removed, di, s3, conv>>

\* The version schedulePatch hands to the model: the project context's.
PatchVersionOther(me) == [me.pv EXCEPT !.Id = "v1"]

PatchVersion(me) == me.pv

\* One round of AddNewTasksForPatch's loop over the version's builds.
AddTasksToBuilds(r) ==
  /\ req[r].pc = "addTasksToBuild"
  /\ LET id == req[r].pv.BuildIds[req[r].idx]
         b == IF id \in DOMAIN builds THEN builds[id]
              ELSE [Id |-> id, BuildVariant |-> "", Activated |-> FALSE]
         res == AddTasksToBuild(b, project, PatchVersion(req[r]), req[r].newTasks,
                                builds, tasks)
     IN /\ builds' = res.builds
        /\ tasks' = res.tasks
        /\ req' = [req EXCEPT ![r] =
             IF res.err # "" THEN Return(r, res.err)
             ELSE [@ EXCEPT !.created = @ \cup (DOMAIN res.tasks \ DOMAIN tasks),
                            !.idx = IF @ < Len(req[r].pv.BuildIds) THEN @ + 1 ELSE 1,
                            !.pc = IF req[r].idx < Len(req[r].pv.BuildIds)
                                   THEN "addTasksToBuild" ELSE "addBuildVariants"]]
  /\ UNCHANGED <<project, patch, versions, faults, removed, di, s3, conv>>

\* AddNewBuildsForPatch, its first half: the new variants are computed and
\* the requested variants added to the patch document.
NewVariants(p, buildVariants) == Missing(buildVariants, p.BuildVariants)

AddBuildVariants(p, buildVariants) == [p EXCEPT !.BuildVariants = AddToSet(@, buildVariants)]

AddNewBuildsForPatch(r) ==
  /\ req[r].pc = "addBuildVariants"
  /\ LET buildVariants == VariantsOf(req[r].pairs)
         newVariants == NewVariants(req[r].p, buildVariants)
     IN /\ patch' = AddBuildVariants(patch, buildVariants)
        /\ req' = [req EXCEPT ![r] =
             [@ EXCEPT !.p = AddBuildVariants(@, buildVariants),
                       !.newVariants = newVariants,
                       !.idx = 1,
                       !.pc = IF Len(newVariants) > 0 THEN "createBuild" ELSE "updateVersion"]]
  /\ UNCHANGED <<project, versions, builds, tasks, faults, removed, di, s3, conv>>

BuildStatus(buildVariant, buildId, activated) ==
  [BuildVariant |-> buildVariant, BuildId |-> buildId, Activated |-> activated]

\* One round of AddNewBuildsForPatch's loop over the new variants; as the bug
\* of an id table computed over the newly requested pairs alone:
CreateNewBuildNewPairsTable(r) ==
  /\ req[r].pc = "createBuild"
  /\ req[r].path = "Extend"
  /\ LET me == req[r]
         buildVariant == me.newVariants[me.idx]
         tt == [Version |-> PatchVersion(me).Id, Pairs |-> Range(me.pairs)]
         res == CreateBuildFromVersion(project, PatchVersion(me), tt, buildVariant,
                                       me.p.Activated, me.p.Tasks, builds, tasks)
     IN /\ builds' = res.builds
        /\ tasks' = res.tasks
        /\ req' = [req EXCEPT ![r] =
             IF res.err # "" THEN Return(r, res.err)
             ELSE [@ EXCEPT
                     !.created = @ \cup (DOMAIN res.tasks \ DOMAIN tasks) \cup {res.buildId},
                     !.newBuildIds = Append(@, res.buildId),
                     !.newBuildStatuses =
                        Append(@, BuildStatus(buildVariant, res.buildId, me.p.Activated)),
                     !.pv = [@ EXCEPT !.BuildIds = Append(@, res.buildId)],
                     !.idx = IF @ < Len(me.newVariants) THEN @ + 1 ELSE 1,
                     !.pc = IF me.idx < Len(me.newVariants)
                            THEN "createBuild" ELSE "updateVersion"]]
  /\ UNCHANGED <<project, patch, versions, faults, removed, di, s3, conv>>

\* as the bug of a call that runs the add-tasks step after creating the builds:
CreateNewBuildThenAddTasks(r) ==
  /\ req[r].pc = "createBuild"
  /\ req[r].path = "Extend"
  /\ LET me == req[r]
         buildVariant == me.newVariants[me.idx]
         tt == NewPatchTaskIdTable(project, PatchVersion(me), me.p)
         res == CreateBuildFromVersion(project, PatchVersion(me), tt, buildVariant,
                                       me.p.Activated, me.p.Tasks, builds, tasks)
     IN /\ builds' = res.builds
        /\ tasks' = res.tasks
        /\ req' = [req EXCEPT ![r] =
             IF res.err # "" THEN Return(r, res.err)
             ELSE [@ EXCEPT
                     !.created = @ \cup (DOMAIN res.tasks \ DOMAIN tasks) \cup {res.buildId},
                     !.newBuildIds = Append(@, res.buildId),
                     !.newBuildStatuses =
                        Append(@, BuildStatus(buildVariant, res.buildId, me.p.Activated)),
                     !.pv = [@ EXCEPT !.BuildIds = Append(@, res.buildId)],
                     !.idx = IF @ < Len(me.newVariants) THEN @ + 1 ELSE 1,
                     !.pc = IF me.idx < Len(me.newVariants)
                            THEN "createBuild" ELSE "addTasksToBuild"]]
  /\ UNCHANGED <<project, patch, versions, faults, removed, di, s3, conv>>

CreateNewBuild(r) ==
  /\ req[r].pc = "createBuild"
  /\ req[r].path = "Extend"
  /\ LET me == req[r]
         buildVariant == me.newVariants[me.idx]
         tt == NewPatchTaskIdTable(project, PatchVersion(me), me.p)
         res == CreateBuildFromVersion(project, PatchVersion(me), tt, buildVariant,
                                       me.p.Activated, me.p.Tasks, builds, tasks)
     IN /\ builds' = res.builds
        /\ tasks' = res.tasks
        /\ req' = [req EXCEPT ![r] =
             IF res.err # "" THEN Return(r, res.err)
             ELSE [@ EXCEPT
                     !.created = @ \cup (DOMAIN res.tasks \ DOMAIN tasks) \cup {res.buildId},
                     !.newBuildIds = Append(@, res.buildId),
                     !.newBuildStatuses =
                        Append(@, BuildStatus(buildVariant, res.buildId, me.p.Activated)),
                     !.pv = [@ EXCEPT !.BuildIds = Append(@, res.buildId)],
                     !.idx = IF @ < Len(me.newVariants) THEN @ + 1 ELSE 1,
                     !.pc = IF me.idx < Len(me.newVariants)
                            THEN "createBuild" ELSE "updateVersion"]]
  /\ UNCHANGED <<project, patch, versions, faults, removed, di, s3, conv>>

\* The $push of the new build ids and statuses onto the version document.
PushBuildsAsSet(v, newBuildIds, newBuildStatuses) ==
  [v EXCEPT !.BuildIds = newBuildIds, !.BuildVariants = newBuildStatuses]

PushBuilds(v, newBuildIds, newBuildStatuses) ==
  [v EXCEPT !.BuildIds = @ \o newBuildIds, !.BuildVariants = @ \o newBuildStatuses]

UpdateVersion(r) ==
  /\ req[r].pc = "updateVersion"
  /\ IF req[r].pv.Id \in DOMAIN versions
     THEN /\ versions' = [versions EXCEPT ![req[r].pv.Id] =
                            PushBuilds(@, req[r].newBuildIds, req[r].newBuildStatuses)]
          /\ req' = [req EXCEPT ![r] = Return(r, "")]
     ELSE /\ versions' = versions
          /\ req' = [req EXCEPT ![r] = Return(r, "NotFound")]
  /\ UNCHANGED <<project, patch, builds, tasks, faults, removed, di, s3, conv>>

\* ---------------------------------------------------------------- Finalize
\* The variants and tasks of a list of VariantTasks, recorded on the patch.
SetVariantsTasks(p, variantsTasks) ==
  [p EXCEPT !.VariantsTasks = variantsTasks,
            !.BuildVariants = VariantsOf(VariantTasksToTVPairs(variantsTasks)),
            !.Tasks = TaskNamesOf(VariantTasksToTVPairs(variantsTasks))]

\* schedulePatch's Finalize branch stores the request's variants and tasks,
\* then calls FinalizePatch.
StoreVariantsTasks(r) ==
  /\ req[r].pc = "setVariantsTasks"
  /\ patch' = SetVariantsTasks(patch, req[r].body)
  /\ req' = [req EXCEPT ![r] =
       [@ EXCEPT !.p = SetVariantsTasks(@, req[r].body),
                 !.pv = [NilVersion EXCEPT !.Id = VersionId],
                 !.idx = 1,
                 !.pc = IF Len(req[r].body) > 0 THEN "createBuild" ELSE "insertVersion"]]
  /\ UNCHANGED <<project, versions, builds, tasks, faults, removed, di, s3, conv>>

\* Another caller (the API's finalize) hands the stored patch, which names the
\* variants and tasks to build, to FinalizePatch.
StartFinalize(r) ==
  /\ req[r].pc = "idle"
  /\ \A q \in Calls : q < r => req[q].pc # "idle"
  /\ Cardinality(InFlight) < MaxInFlight
  /\ Len(patch.VariantsTasks) > 0
  /\ req' = [req EXCEPT ![r] =
       [@ EXCEPT !.entry = "FinalizePatch",
                 !.path = "Finalize",
                 !.p = patch,
                 !.pv = [NilVersion EXCEPT !.Id = VersionId],
                 !.before = Finished,
                 !.idx = 1,
                 !.pc = "createBuild"]]
  /\ UNCHANGED <<project, patch, versions, builds, tasks, faults, removed, di, s3, conv>>

\* The documents of `docs` but those with an id in `ids`.
Without(docs, ids) == [id \in DOMAIN docs \ ids |-> docs[id]]

\* One round of FinalizePatch's loop over the patch's VariantsTasks; as the
\* bug of a loop that undoes the batch when a build fails:
FinalizeCreateBuildRollsBack(r) ==
  /\ req[r].pc = "createBuild"
  /\ req[r].path = "Finalize"
  /\ LET me == req[r]
         vt == me.p.VariantsTasks[me.idx]
         tt == NewPatchTaskIdTable(project, me.pv, me.p)
         res == CreateBuildFromVersion(project, me.pv, tt, vt.Variant, TRUE, vt.Tasks,
                                       builds, tasks)
     IN /\ builds' = IF res.err # "" THEN Without(builds, me.created) ELSE res.builds
        /\ tasks' = IF res.err # "" THEN Without(tasks, me.created) ELSE res.tasks
        /\ req' = [req EXCEPT ![r] =
             IF res.err # "" THEN Return(r, res.err)
             ELSE [@ EXCEPT
                     !.created = @ \cup (DOMAIN res.tasks \ DOMAIN tasks) \cup {res.buildId},
                     !.pv = [@ EXCEPT !.BuildIds = Append(@, res.buildId),
                                      !.BuildVariants =
                                         Append(@, BuildStatus(vt.Variant, res.buildId, TRUE))],
                     !.idx = IF @ < Len(me.p.VariantsTasks) THEN @ + 1 ELSE 1,
                     !.pc = IF me.idx < Len(me.p.VariantsTasks)
                            THEN "createBuild" ELSE "insertVersion"]]
  /\ UNCHANGED <<project, patch, versions, faults, removed, di, s3, conv>>

\* as the bug of a loop that passes the patch's Activated flag on:
FinalizeCreateBuildAsPatch(r) ==
  /\ req[r].pc = "createBuild"
  /\ req[r].path = "Finalize"
  /\ LET me == req[r]
         vt == me.p.VariantsTasks[me.idx]
         tt == NewPatchTaskIdTable(project, me.pv, me.p)
         res == CreateBuildFromVersion(project, me.pv, tt, vt.Variant, me.p.Activated,
                                       vt.Tasks, builds, tasks)
     IN /\ builds' = res.builds
        /\ tasks' = res.tasks
        /\ req' = [req EXCEPT ![r] =
             IF res.err # "" THEN Return(r, res.err)
             ELSE [@ EXCEPT
                     !.created = @ \cup (DOMAIN res.tasks \ DOMAIN tasks) \cup {res.buildId},
                     !.pv = [@ EXCEPT !.BuildIds = Append(@, res.buildId),
                                      !.BuildVariants =
                                         Append(@, BuildStatus(vt.Variant, res.buildId,
                                                               me.p.Activated))],
                     !.idx = IF @ < Len(me.p.VariantsTasks) THEN @ + 1 ELSE 1,
                     !.pc = IF me.idx < Len(me.p.VariantsTasks)
                            THEN "createBuild" ELSE "insertVersion"]]
  /\ UNCHANGED <<project, patch, versions, faults, removed, di, s3, conv>>

FinalizeCreateBuild(r) ==
  /\ req[r].pc = "createBuild"
  /\ req[r].path = "Finalize"
  /\ LET me == req[r]
         vt == me.p.VariantsTasks[me.idx]
         tt == NewPatchTaskIdTable(project, me.pv, me.p)
         res == CreateBuildFromVersion(project, me.pv, tt, vt.Variant, TRUE, vt.Tasks,
                                       builds, tasks)
     IN /\ builds' = res.builds
        /\ tasks' = res.tasks
        /\ req' = [req EXCEPT ![r] =
             IF res.err # "" THEN Return(r, res.err)
             ELSE [@ EXCEPT
                     !.created = @ \cup (DOMAIN res.tasks \ DOMAIN tasks) \cup {res.buildId},
                     !.pv = [@ EXCEPT !.BuildIds = Append(@, res.buildId),
                                      !.BuildVariants =
                                         Append(@, BuildStatus(vt.Variant, res.buildId, TRUE))],
                     !.idx = IF @ < Len(me.p.VariantsTasks) THEN @ + 1 ELSE 1,
                     !.pc = IF me.idx < Len(me.p.VariantsTasks)
                            THEN "createBuild" ELSE "insertVersion"]]
  /\ UNCHANGED <<project, patch, versions, faults, removed, di, s3, conv>>

\* patchVersion.Insert(): the store rejects a second document with the id; as
\* the bug of a Finalize that links the patch without inserting the version:
InsertVersionSkipped(r) ==
  /\ req[r].pc = "insertVersion"
  /\ req' = [req EXCEPT ![r] = [@ EXCEPT !.pc = "setActivated"]]
  /\ UNCHANGED <<project, patch, versions, builds, tasks, faults, removed, di, s3, conv>>

InsertVersion(r) ==
  /\ req[r].pc = "insertVersion"
  /\ IF req[r].pv.Id \in DOMAIN versions
     THEN /\ versions' = versions
          /\ req' = [req EXCEPT ![r] = Return(r, "StoreConflict")]
     ELSE /\ versions' = versions @@ (req[r].pv.Id :> req[r].pv)
          /\ req' = [req EXCEPT ![r] = [@ EXCEPT !.pc = "setActivated",
                                                 !.created = @ \cup {<<req[r].pv.Id>>}]]
  /\ UNCHANGED <<project, patch, builds, tasks, faults, removed, di, s3, conv>>

\* p.SetActivated(patchVersion.Id) links the patch to its version.
SetActivated(p, versionId) == [p EXCEPT !.Version = versionId, !.Activated = TRUE]

LinkVersion(r) ==
  /\ req[r].pc = "setActivated"
  /\ patch' = SetActivated(patch, req[r].pv.Id)
  /\ req' = [req EXCEPT ![r] = [Return(r, "") EXCEPT !.p = SetActivated(@, req[r].pv.Id)]]
  /\ UNCHANGED <<project, versions, builds, tasks, faults, removed, di, s3, conv>>

\* FinalizePatch's loop run to its end on a store `bs`, `ts`: the builds and
\* tasks it leaves, and the error it stops at.
RECURSIVE FinalizeBuilds(_, _, _, _, _)
FinalizeBuilds(proj, p, variantsTasks, bs, ts) ==
  IF variantsTasks = <<>> THEN [err |-> "", builds |-> bs, tasks |-> ts]
  ELSE LET v == [NilVersion EXCEPT !.Id = VersionId]
           vt == Head(variantsTasks)
           res == CreateBuildFromVersion(proj, v, NewPatchTaskIdTable(proj, v, p),
                                         vt.Variant, TRUE, vt.Tasks, bs, ts)
       IN IF res.err # "" THEN [err |-> res.err, builds |-> bs, tasks |-> ts]
          ELSE FinalizeBuilds(proj, p, Tail(variantsTasks), res.builds, res.tasks)

\* AddNewTasksForPatch's loop over the version's builds run to its end.
RECURSIVE AddTasksLoop(_, _, _, _, _, _)
AddTasksLoop(proj, v, buildIds, newTasks, bs, ts) ==
  IF buildIds = <<>> THEN [err |-> "", builds |-> bs, tasks |-> ts]
  ELSE LET id == Head(buildIds)
           b == IF id \in DOMAIN bs THEN bs[id]
                ELSE [Id |-> id, BuildVariant |-> "", Activated |-> FALSE]
           res == AddTasksToBuild(b, proj, v, newTasks, bs, ts)
       IN IF res.err # "" THEN [err |-> res.err, builds |-> bs, tasks |-> ts]
          ELSE AddTasksLoop(proj, v, Tail(buildIds), newTasks, res.builds, res.tasks)

\* AddNewBuildsForPatch's loop over the new variants run to its end.
RECURSIVE CreateBuildsLoop(_, _, _, _, _, _, _, _)
CreateBuildsLoop(proj, v, p, newVariants, bs, ts, ids, statuses) ==
  IF newVariants = <<>>
  THEN [err |-> "", builds |-> bs, tasks |-> ts, ids |-> ids, statuses |-> statuses]
  ELSE LET buildVariant == Head(newVariants)
           res == CreateBuildFromVersion(proj, v, NewPatchTaskIdTable(proj, v, p),
                                         buildVariant, p.Activated, p.Tasks, bs, ts)
       IN IF res.err # ""
          THEN [err |-> res.err, builds |-> bs, tasks |-> ts, ids |-> ids,
                statuses |-> statuses]
          ELSE CreateBuildsLoop(proj, v, p, Tail(newVariants), res.builds, res.tasks,
                                Append(ids, res.buildId),
                                Append(statuses, BuildStatus(buildVariant, res.buildId,
                                                             p.Activated)))

\* schedulePatch's Extend branch run alone on the store `vs`, `bs`, `ts` for
\* the patch p and its version v: the documents it leaves.
ExtendOnce(proj, p, v, vs, bs, ts, pairs) ==
  LET taskNames == TaskNamesOf(pairs)
      newTasks == NewTasks(p, taskNames)
      p1 == AddTasks(p, taskNames)
      added == IF Len(newTasks) > 0 /\ Len(v.BuildIds) > 0
               THEN AddTasksLoop(proj, v, v.BuildIds, newTasks, bs, ts)
               ELSE [err |-> "", builds |-> bs, tasks |-> ts]
      buildVariants == VariantsOf(pairs)
      newVariants == NewVariants(p1, buildVariants)
      p2 == AddBuildVariants(p1, buildVariants)
      made == CreateBuildsLoop(proj, v, p2, newVariants, added.builds, added.tasks,
                               <<>>, <<>>)
  IN IF added.err # ""
     THEN [patch |-> p1, versions |-> vs, builds |-> added.builds, tasks |-> added.tasks]
     ELSE IF made.err # ""
     THEN [patch |-> p2, versions |-> vs, builds |-> made.builds, tasks |-> made.tasks]
     ELSE [ patch |-> p2,
            versions |-> [vs EXCEPT ![v.Id] = PushBuilds(@, made.ids, made.statuses)],
            builds |-> made.builds,
            tasks |-> made.tasks ]

\* ------------------------------------------------------------------ faults
\* The store operation the request is about to do fails; the handler returns
\* the error.
StorePcs ==
  {"addTasks", "addTasksToBuild", "addBuildVariants", "createBuild", "updateVersion",
   "setVariantsTasks", "insertVersion", "setActivated"}

StoreFails(r) ==
  /\ req[r].pc \in StorePcs
  /\ faults < MaxFaults
  /\ faults' = faults + 1
  /\ req' = [req EXCEPT ![r] = Return(r, "StoreError")]
  /\ UNCHANGED <<project, patch, versions, builds, tasks, removed, di, s3, conv>>

Next ==
  \E r \in Calls :
    \/ \E body \in Bodies : StartSchedule(r, body)
    \/ ReloadPatch(r)
    \/ AddNewTasksForPatch(r)
    \/ AddTasksToBuilds(r)
    \/ AddNewBuildsForPatch(r)
    \/ CreateNewBuild(r)
    \/ UpdateVersion(r)
    \/ StoreVariantsTasks(r)
    \/ StartFinalize(r)
    \/ FinalizeCreateBuild(r)
    \/ InsertVersion(r)
    \/ LinkVersion(r)
    \/ StoreFails(r)

Spec == Init /\ [][Next]_vars

\* ------------------------------------------------------------- CancelPatch
\* The builds or tasks `docs` with those of the version set to `active`.
SetVersionActivation(versionId, active, docs) ==
  [id \in DOMAIN docs |->
     IF docs[id].Version = versionId THEN [docs[id] EXCEPT !.Activated = active]
     ELSE docs[id]]

\* A caller loads the patch to cancel it.
StartCancel(r) ==
  /\ req[r].pc = "idle"
  /\ \A q \in Calls : q < r => req[q].pc # "idle"
  /\ Cardinality(InFlight) < MaxInFlight
  /\ ~removed
  /\ req' = [req EXCEPT ![r] = [@ EXCEPT !.pc = "cancel",
                                         !.entry = "CancelPatch",
                                         !.path = "Cancel",
                                         !.p = patch,
                                         !.before = Finished]]
  /\ UNCHANGED <<project, patch, versions, builds, tasks, faults, removed, di, s3, conv>>

\* A finalized patch has its version deactivated and aborted and a pending one
\* is removed; as the bug of a cancel that also returns the patch to pending:
CancelPatchUnlinks(r) ==
  /\ req[r].pc = "cancel"
  /\ IF req[r].p.Version # ""
     THEN /\ builds' = SetVersionActivation(req[r].p.Version, FALSE, builds)
          /\ tasks' = SetVersionActivation(req[r].p.Version, FALSE, tasks)
          /\ patch' = [patch EXCEPT !.Version = "", !.Activated = FALSE]
          /\ UNCHANGED removed
     ELSE /\ removed' = TRUE
          /\ UNCHANGED <<patch, builds, tasks>>
  /\ req' = [req EXCEPT ![r] = Return(r, "")]
  /\ UNCHANGED <<project, versions, faults, di, s3, conv>>

CancelPatch(r) ==
  /\ req[r].pc = "cancel"
  /\ IF req[r].p.Version # ""
     THEN /\ builds' = SetVersionActivation(req[r].p.Version, FALSE, builds)
          /\ tasks' = SetVersionActivation(req[r].p.Version, FALSE, tasks)
          /\ UNCHANGED removed
     ELSE /\ removed' = TRUE
          /\ UNCHANGED <<builds, tasks>>
  /\ req' = [req EXCEPT ![r] = Return(r, "")]
  /\ UNCHANGED <<project, patch, versions, faults, di, s3, conv>>

\* The steps that read or update the patch document.
PatchPcs == {"reload", "addTasks", "addBuildVariants", "setVariantsTasks", "setActivated"}

\* The patch document is gone: the read or update of it fails.
PatchNotFound(r) ==
  /\ removed
  /\ req[r].pc \in PatchPcs
  /\ req' = [req EXCEPT ![r] = Return(r, "PatchNotFound")]
  /\ UNCHANGED <<project, patch, versions, builds, tasks, faults, removed, di, s3, conv>>

\* Requests to schedule and to cancel the patch; once the patch is removed no
\* request finds it, and those in flight go on until they touch it.
LifecycleNext ==
  \/ ~removed /\ Next
  \/ \E r \in Calls : StartCancel(r)
  \/ \E r \in Calls : CancelPatch(r)
  \/ \E r \in Calls : PatchNotFound(r)
  \/ \E r \in Calls :
       /\ removed
       /\ \/ AddTasksToBuilds(r)
          \/ CreateNewBuild(r)
          \/ UpdateVersion(r)
          \/ FinalizeCreateBuild(r)
          \/ InsertVersion(r)
          \/ StoreFails(r)

LifecycleSpec == Init /\ [][LifecycleNext]_vars

\* ------------------------------------------------- the request's pairs
\* schedulePatch's computation of the pairs, from the decoded request struct
\* to the result of IncludePatchDependencies, with the traversal of the
\* dependencyIncluder unfolded into its steps.

\* compile and test of one variant require each other.
ProjectCycle ==
  [ BuildVariants |-> [linux |-> <<"compile", "test">>, osx |-> <<"compile", "test">>],
    Tasks |-> [compile |-> <<Ref("test", "")>>, test |-> <<Ref("compile", "")>>] ]

\* test requires compile of osx, compile requires test of linux.
ProjectCross ==
  [ BuildVariants |-> [linux |-> <<"compile", "test">>, osx |-> <<"compile", "test">>],
    Tasks |-> [compile |-> <<Ref("test", "linux")>>, test |-> <<Ref("compile", "osx")>>] ]

ResolverProjects == Projects \cup {ProjectCycle, ProjectCross}

\* The values a client gives the fields of patchVariantsTasksRequest.
RequestVariantsTasks ==
  Bodies \cup
  { <<>>,
    <<VT("linux", <<>>)>>,
    <<VT("linux", <<"test", "test">>)>>,
    <<VT("linux", <<"compile">>), VT("linux", <<"compile">>)>>,
    <<VT("linux", <<"test", "compile">>), VT("osx", <<"test">>)>> }

RequestVariants == {<<>>, <<"osx">>, <<"linux", "osx">>}

RequestTasks == {<<>>, <<"test">>, <<"compile", "test">>}

\* A JSON body is an array of VariantTasks, or an object with the fields
\* variants_tasks, variants and tasks.
ArrayBody(variantsTasks) ==
  [form |-> "array", VariantsTasks |-> variantsTasks, Variants |-> <<>>, Tasks |-> <<>>]

ObjectBody(variantsTasks, variants, taskNames) ==
  [form |-> "object", VariantsTasks |-> variantsTasks, Variants |-> variants,
   Tasks |-> taskNames]

RequestBodies ==
  {ArrayBody(vts) : vts \in RequestVariantsTasks}
    \cup {ObjectBody(vts, vs, ts) : vts \in {<<>>, <<VT("linux", <<"test">>)>>},
                                    vs \in RequestVariants, ts \in RequestTasks}

\* util.ReadJSONInto(r.Body, &(patchUpdateReq.VariantsTasks)): the body is
\* unmarshalled into the slice of VariantTasks; an object is not a slice.
ReadJSONInto(body) ==
  IF body.form = "array" THEN [err |-> "", VariantsTasks |-> body.VariantsTasks]
  ELSE [err |-> "BadRequest", VariantsTasks |-> <<>>]

ResolveInit ==
  /\ project \in ResolverProjects
  /\ patch = PendingPatch
  /\ versions = <<>>
  /\ builds = <<>>
  /\ tasks = <<>>
  /\ req = [r \in Calls |-> IdleReq]
  /\ faults = 0
  /\ removed = FALSE
  /\ \E body \in RequestBodies : di = [IdleDi EXCEPT !.pc = "decode", !.body = body]
  /\ s3 = IdleS3
  /\ conv = IdleConv

\* The body is decoded; the pairs are built from the request struct and handed
\* to the dependencyIncluder.
DecodeRequest ==
  /\ di.pc = "decode"
  /\ LET read == ReadJSONInto(di.body)
         pairs == RequestPairs(read.VariantsTasks, di.Variants, di.Tasks)
     IN di' = IF read.err # "" THEN [di EXCEPT !.err = read.err, !.pc = "done"]
              ELSE [di EXCEPT !.VariantsTasks = read.VariantsTasks,
                              !.seed = pairs, !.queue = pairs, !.pc = "include"]
  /\ UNCHANGED <<project, patch, versions, builds, tasks, req, faults, removed, s3, conv>>

\* Whether the traversal has visited `pair`.
IncludedNever(out, pair) == FALSE

Included(out, pair) == SliceContains(out, pair)

\* One pair is taken from the work list; when it was not visited before it is
\* added to the result and its dependencies are queued.
IncludeStep ==
  /\ di.pc = "include"
  /\ di.queue # <<>>
  /\ LET pair == Head(di.queue)
     IN di' = IF Included(di.out, pair)
              THEN [di EXCEPT !.queue = Tail(@), !.visits = @ + 1]
              ELSE [di EXCEPT !.queue = Tail(@) \o DepsOf(project, pair),
                              !.out = Append(@, pair),
                              !.visits = @ + 1]
  /\ UNCHANGED <<project, patch, versions, builds, tasks, req, faults, removed, s3, conv>>

\* The work list is empty: schedulePatch receives the pairs.
IncludeReturn ==
  /\ di.pc = "include"
  /\ di.queue = <<>>
  /\ di' = [di EXCEPT !.pairs = IncludePatchDependencies(project, di.seed), !.pc = "done"]
  /\ UNCHANGED <<project, patch, versions, builds, tasks, req, faults, removed, s3, conv>>

ResolveNext ==
  \/ DecodeRequest
  \/ IncludeStep
  \/ IncludeReturn

\* The handler runs on: a step that can be taken is taken.
ResolveSpec == ResolveInit /\ [][ResolveNext]_vars /\ WF_vars(ResolveNext)

\* ---------------------------------------------------------- S3 put command
\* The agent's s3.put: Execute starts PutWithRetry in a goroutine and waits
\* for its result or for the stop signal.
maxS3PutAttempts == 5

errSkippedFile == "missing optional file was skipped"

\* What thirdparty.PutS3File can answer for one file.
PutOutcomes == {"ok", "NotExist", "S3Error"}

\* Put for one file whose upload ended with `outcome`; as the bug of a Put
\* that reports a missing optional file like any other error:
PutReportsMissing(optional, multi, outcome) ==
  IF outcome = "ok" THEN "" ELSE outcome

Put(optional, multi, outcome) ==
  IF outcome = "ok" THEN ""
  ELSE IF ~multi /\ optional /\ outcome = "NotExist" THEN errSkippedFile
  ELSE outcome

\* The function PutWithRetry hands to the retry: the skipped file is returned
\* as it is, any other error as a util.RetriableError.
RetriablePut(optional, multi, outcome) ==
  LET err == Put(optional, multi, outcome)
  IN [err |-> err, retriable |-> err # "" /\ err # errSkippedFile]

\* One round of util.RetryArithmeticBackoff after its call of the function
\* returned `res`, `attempt` calls having been made of `numTries`: it returns
\* (retryFail, err) or calls again.
RetryArithmeticBackoff(res, attempt, numTries) ==
  IF res.err = "" THEN [again |-> FALSE, retryFail |-> FALSE, err |-> ""]
  ELSE IF ~res.retriable THEN [again |-> FALSE, retryFail |-> FALSE, err |-> res.err]
  ELSE IF attempt >= numTries THEN [again |-> FALSE, retryFail |-> TRUE, err |-> res.err]
  ELSE [again |-> TRUE, retryFail |-> FALSE, err |-> res.err]

S3Unchanged ==
  UNCHANGED <<project, patch, versions, builds, tasks, req, faults, removed, di, conv>>

S3Init ==
  /\ project = ProjectA
  /\ patch = PendingPatch
  /\ versions = <<>>
  /\ builds = <<>>
  /\ tasks = <<>>
  /\ req = [r \in Calls |-> IdleReq]
  /\ faults = 0
  /\ removed = FALSE
  /\ di = IdleDi
  /\ conv = IdleConv
  /\ \E optional, multi, runs, exists \in BOOLEAN :
       s3 = [IdleS3 EXCEPT !.pc = "execute", !.Optional = optional, !.Multi = multi,
                           !.Runs = runs, !.Exists = exists]

\* validateParams: an optional upload cannot use the include filter.
validateParams(c) == IF c.Optional /\ c.Multi THEN "invalid" ELSE ""

\* Execute up to its select: the parameters are validated, a command that does
\* not run for the variant returns nil, else the goroutine is started.
Execute ==
  /\ s3.pc = "execute"
  /\ s3' = IF validateParams(s3) # "" THEN [s3 EXCEPT !.pc = "returned", !.ret = "invalid"]
           ELSE IF ~s3.Runs THEN [s3 EXCEPT !.pc = "returned", !.ret = ""]
           ELSE [s3 EXCEPT !.pc = "select", !.put = "put"]
  /\ S3Unchanged

\* The outcomes of the upload: a single file that is missing cannot be
\* opened; files matched by the filter can have gone since.
Outcomes(c) ==
  IF c.Multi THEN PutOutcomes
  ELSE IF c.Exists THEN {"ok", "S3Error"} ELSE {"NotExist"}

\* One call of Put by the retry, and the retry's decision.
PutAttempt ==
  /\ s3.put = "put"
  /\ \E outcome \in Outcomes(s3) :
       LET res == RetriablePut(s3.Optional, s3.Multi, outcome)
           back == RetryArithmeticBackoff(res, s3.attempts + 1, maxS3PutAttempts)
       IN s3' = [s3 EXCEPT !.attempts = @ + 1,
                           !.retryFail = back.retryFail,
                           !.err = back.err,
                           !.put = IF back.again THEN "put" ELSE "retried"]
  /\ S3Unchanged

\* PutWithRetry after the retry returned: the skipped file gives nil, a
\* failure the error, and a success goes on to AttachTaskFiles.
AfterRetry ==
  /\ s3.put = "retried"
  /\ s3' = IF s3.err = errSkippedFile
           THEN [s3 EXCEPT !.skipped = TRUE, !.result = "", !.put = "send"]
           ELSE IF s3.retryFail THEN [s3 EXCEPT !.result = s3.err, !.put = "send"]
           ELSE [s3 EXCEPT !.put = "attach"]
  /\ S3Unchanged

\* AttachTaskFiles posts the file to the API server, which can fail.
AttachTaskFiles ==
  /\ s3.put = "attach"
  /\ \E e \in {"", "AttachFailed"} :
       s3' = [s3 EXCEPT !.attached = @ + 1, !.result = e, !.put = "send"]
  /\ S3Unchanged

\* The select receives the result the goroutine sends on errChan.
ReceiveResult ==
  /\ s3.pc = "select"
  /\ s3.put = "send"
  /\ s3' = [s3 EXCEPT !.pc = "returned", !.ret = s3.result, !.put = "exit"]
  /\ S3Unchanged

\* The agent signals the command to stop.
SignalStop ==
  /\ s3.pc \in {"execute", "select"}
  /\ ~s3.stop
  /\ s3' = [s3 EXCEPT !.stop = TRUE]
  /\ S3Unchanged

\* The select receives from stop: Execute returns nil.
ReceiveStop ==
  /\ s3.pc = "select"
  /\ s3.stop
  /\ s3' = [s3 EXCEPT !.pc = "returned", !.ret = "", !.stop = FALSE]
  /\ S3Unchanged

S3Next ==
  \/ Execute
  \/ PutAttempt
  \/ AfterRetry
  \/ AttachTaskFiles
  \/ ReceiveResult
  \/ SignalStop
  \/ ReceiveStop

S3Spec == S3Init /\ [][S3Next]_vars

\* The steps of Execute and of its goroutine; the stop signal is the agent's.
S3Run ==
  \/ Execute
  \/ PutAttempt
  \/ AfterRetry
  \/ AttachTaskFiles
  \/ ReceiveResult
  \/ ReceiveStop

\* The scheduler runs a goroutine that can take a step.
S3FairSpec == S3Init /\ [][S3Next]_vars /\ WF_vars(S3Run)

\* --------------------------------------------------- TVPairsToVariantTasks
\* The longest list of pairs converted.
MaxPairs == 3

\* The zero value of patch.VariantTasks.
ZeroVariantTasks == [Variant |-> "", Tasks |-> <<>>]

\* vtMap after the first loop: per variant of `in`, its task names appended
\* in input order.
VtMap(in) ==
  [v \in {in[i].Variant : i \in DOMAIN in} |->
     LET mine == SelectSeq(in, LAMBDA pair : pair.Variant = v)
     IN VT(v, [i \in DOMAIN mine |-> mine[i].TaskName])]

\* The orders in which a range over a map with the keys `keys` can visit them.
IterationOrders(keys) ==
  {order \in [1..Cardinality(keys) -> keys] : \A k \in keys : \E i \in DOMAIN order : order[i] = k}

\* vts is made with len(vtMap) zero entries and the map's entries are appended
\* to it in the order the range visits them.
TVPairsToVariantTasks(in, order) ==
  [i \in 1..Len(order) |-> ZeroVariantTasks] \o [i \in DOMAIN order |-> VtMap(in)[order[i]]]

ConvInputs ==
  UNION {[1..n -> [Variant : {"linux", "osx"}, TaskName : {"compile", "test"}]] :
           n \in 0..MaxPairs}

ConvInit ==
  /\ project = ProjectA
  /\ patch = PendingPatch
  /\ versions = <<>>
  /\ builds = <<>>
  /\ tasks = <<>>
  /\ req = [r \in Calls |-> IdleReq]
  /\ faults = 0
  /\ removed = FALSE
  /\ di = IdleDi
  /\ s3 = IdleS3
  /\ \E in \in ConvInputs : conv = [IdleConv EXCEPT !.pc = "call", !.in = in]

\* The call returns, the map having been visited in one of its orders.
Convert ==
  /\ conv.pc = "call"
  /\ \E order \in IterationOrders(DOMAIN VtMap(conv.in)) :
       conv' = [conv EXCEPT !.pc = "done", !.out = TVPairsToVariantTasks(conv.in, order)]
  /\ UNCHANGED <<project, patch, versions, builds, tasks, req, faults, removed, di, s3>>

ConvNext == Convert

ConvSpec == ConvInit /\ [][ConvNext]_vars

\* ------------------------------------------------------------------ claims
Done(r) == req[r].pc = "done"

Succeeded(r) == Done(r) /\ req[r].err = ""

\* q returned before r started.
Before(q, r) == q \in req[r].before

Raced(q, r) == q # r /\ ~Before(q, r) /\ ~Before(r, q)

IsPrefix(s, t) == Len(s) <= Len(t) /\ \A i \in DOMAIN s : s[i] = t[i]

\* C1: a FinalizePatch call on a patch that an earlier call finalized fails
\* with AlreadyFinalized and writes no record.
C1_SecondFinalizeRejected ==
  \A r \in Calls :
    ( /\ Done(r)
      /\ req[r].path = "Finalize"
      /\ req[r].err # "StoreError"
      /\ \E q \in req[r].before : req[q].path = "Finalize" /\ Succeeded(q) )
    => req[r].err = "AlreadyFinalized" /\ req[r].created = {}

\* C2: of two requests racing to finalize the pending patch, the loser fails
\* as already finalized and leaves no Build or Task behind.
C2_RaceLoserAlreadyFinalized ==
  \A q, r \in Calls :
    ( /\ Raced(q, r)
      /\ faults = 0
      /\ req[q].entry = "schedulePatch" /\ req[q].path = "Finalize"
      /\ req[r].entry = "schedulePatch" /\ req[r].path = "Finalize"
      /\ Succeeded(q) /\ Done(r) )
    => /\ req[r].err = "AlreadyFinalized"
       /\ req[r].created = {}
       /\ \A b \in DOMAIN builds : SliceContains(versions[VersionId].BuildIds, b)

IsTaskId(id) == Len(id) = 3

IsBuildId(id) == Len(id) = 2

PairId(pair) == TaskId(VersionId, pair.Variant, pair.TaskName)

\* The acting request of a step is on the Extend path.
ExtendActs == \E r \in Calls : req[r].path = "Extend" /\ req'[r] # req[r]

OnlyAppends ==
  /\ DOMAIN builds \subseteq DOMAIN builds'
  /\ DOMAIN tasks \subseteq DOMAIN tasks'
  /\ DOMAIN versions \subseteq DOMAIN versions'
  /\ \A t \in DOMAIN tasks : tasks'[t].DependsOn = tasks[t].DependsOn
  /\ \A b \in DOMAIN builds :
       /\ builds'[b] = [builds[b] EXCEPT !.TaskIds = builds'[b].TaskIds]
       /\ IsPrefix(builds[b].TaskIds, builds'[b].TaskIds)
  /\ \A v \in DOMAIN versions :
       /\ versions'[v] = [versions[v] EXCEPT !.BuildIds = versions'[v].BuildIds,
                                             !.BuildVariants = versions'[v].BuildVariants]
       /\ IsPrefix(versions[v].BuildIds, versions'[v].BuildIds)
       /\ IsPrefix(versions[v].BuildVariants, versions'[v].BuildVariants)

\* C3: every step of an Extend keeps each persisted Build and Task, leaves
\* each existing Task's DependsOn as it was, and changes existing Builds and
\* the Version only by appending ids.
C3_ExtendOnlyAppends == [][ExtendActs => OnlyAppends]_vars

\* An Extend returned after adding a task to an existing build and creating
\* a build for a new variant.
C3_Witness ==
  \E r \in Calls :
    /\ Succeeded(r) /\ req[r].path = "Extend"
    /\ \E t \in req[r].created : IsTaskId(t) /\ tasks[t].BuildId \notin req[r].created
    /\ \E b \in req[r].created : IsBuildId(b) /\ SliceContains(versions[VersionId].BuildIds, b)

\* r asks for the pairs that an Extend which returned successfully before r
\* started had asked for.
Repeats(r) ==
  /\ req[r].entry = "schedulePatch"
  /\ \E q \in req[r].before :
       req[q].path = "Extend" /\ Succeeded(q) /\ req[q].body = req[r].body

\* C4: an Extend that repeats the pairs of an Extend that has returned
\* successfully changes no persisted record; it computes empty newTasks and
\* newVariants, creates nothing and returns successfully unless the store
\* fails.
C4_RepeatedExtendNoOp ==
  [][\A r \in Calls :
       (Repeats(r) /\ req'[r] # req[r]) =>
         /\ UNCHANGED <<patch, versions, builds, tasks>>
         /\ req'[r].created = {}
         /\ req'[r].newTasks = <<>> /\ req'[r].newVariants = <<>>
         /\ req'[r].pc = "done" => req'[r].err \in {"", "StoreError"}]_vars

\* A repeated Extend returned successfully, its first run having created records.
C4_Witness ==
  \E r \in Calls :
    /\ Repeats(r) /\ Succeeded(r) /\ req[r].path = "Extend"
    /\ \E q \in req[r].before :
         /\ req[q].path = "Extend" /\ Succeeded(q) /\ req[q].body = req[r].body
         /\ req[q].created # {}

\* q is an Extend that failed before r, which asks for the same pairs, started.
Retries(r, q) ==
  /\ Before(q, r)
  /\ req[q].path = "Extend" /\ req[q].err # ""
  /\ req[r].path = "Extend" /\ req[r].body = req[q].body

\* The Task records the Extend `me` set out to create in the version's builds,
\* and the Builds it set out to create, as far as the project has them.
OwedTasks(me) ==
  {TaskId(VersionId, builds[b].BuildVariant, name) :
     <<b, name>> \in {x \in (Range(me.pv.BuildIds) \cap DOMAIN builds) \X Range(me.newTasks) :
                        HasTask(project, builds[x[1]].BuildVariant, x[2])}}

OwedBuilds(me) ==
  {BuildId(VersionId, bv) : bv \in {x \in Range(me.newVariants) : HasVariant(project, x)}}

\* C5: once the retry of a failed Extend has returned successfully, the Tasks
\* and Builds the failed call had not created exist.
C5_RetryCreatesTheRest ==
  \A q, r \in Calls :
    (Retries(r, q) /\ Succeeded(r)) =>
      /\ OwedTasks(req[q]) \subseteq DOMAIN tasks
      /\ OwedBuilds(req[q]) \subseteq DOMAIN builds

\* C6: when an Extend has returned an error, a task name it added to the
\* persisted patch.Tasks has its Task record in each build it was to extend,
\* and a variant it added to patch.BuildVariants has its Build.
C6_ListsFollowCreation ==
  \A r \in Calls :
    (Done(r) /\ req[r].path = "Extend" /\ req[r].err # "") =>
      /\ \A t \in OwedTasks(req[r]) : SliceContains(patch.Tasks, t[3]) => t \in DOMAIN tasks
      /\ \A b \in OwedBuilds(req[r]) :
           SliceContains(patch.BuildVariants, b[2]) => b \in DOMAIN builds

\* The ids of the Tasks the declared dependencies of `pair` resolve to.
DependencyIds(pair) ==
  LET deps == DepsOf(project, pair) IN [i \in DOMAIN deps |-> PairId(deps[i])]

\* C7: after a Finalize through schedulePatch every pair of the request's
\* dependency closure has a Task record whose DependsOn lists the ids of its
\* dependencies' Tasks.
C7_FinalizeMaterializesClosure ==
  \A r \in Calls :
    (Succeeded(r) /\ req[r].entry = "schedulePatch" /\ req[r].path = "Finalize") =>
      \A i \in DOMAIN req[r].pairs :
        /\ PairId(req[r].pairs[i]) \in DOMAIN tasks
        /\ tasks[PairId(req[r].pairs[i])].DependsOn = DependencyIds(req[r].pairs[i])

\* The pairs grouped by variant, variants and tasks in order of first appearance.
GroupByVariant(pairs) ==
  LET vs == VariantsOf(pairs)
  IN [i \in DOMAIN vs |->
        VT(vs[i], TaskNamesOf(SelectSeq(pairs, LAMBDA pr : pr.Variant = vs[i])))]

UnionRequest(b1, b2) ==
  GroupByVariant(VariantTasksToTVPairs(b1) \o VariantTasksToTVPairs(b2))

\* The Task records a single Finalize of the request `body` leaves.
FinalizeTasks(body) ==
  FinalizeBuilds(project, SetVariantsTasks(PendingPatch, body), body, <<>>, <<>>).tasks

DependsOnOf(ts) == [id \in DOMAIN ts |-> ts[id].DependsOn]

\* C8: a Finalize of S1 followed by an Extend with S2 leaves the Tasks, ids
\* and DependsOn edges that a single Finalize of S1 union S2 leaves.
C8_FinalizeThenExtendIsFinalizeOfUnion ==
  \A q, r \in Calls :
    ( /\ Finished = {q, r} /\ InFlight = {} /\ faults = 0
      /\ req[q].before = {} /\ req[r].before = {q}
      /\ Succeeded(q) /\ req[q].entry = "schedulePatch" /\ req[q].path = "Finalize"
      /\ Succeeded(r) /\ req[r].path = "Extend" )
    => DependsOnOf(tasks) = DependsOnOf(FinalizeTasks(UnionRequest(req[q].body, req[r].body)))

\* The task of `created` that an Extend added to a build it did not create,
\* the dependency index i, and the Task a Finalize created for that dependency.
ResolvesToFinalized(r, t, i, q, u) ==
  /\ req[r].path = "Extend" /\ IsTaskId(t) /\ t \in req[r].created
  /\ tasks[t].BuildId \notin req[r].created
  /\ i \in DOMAIN DepsOf(project, Tv(tasks[t].BuildVariant, tasks[t].DisplayName))
  /\ q # r /\ req[q].path = "Finalize" /\ IsTaskId(u) /\ u \in req[q].created
  /\ Tv(tasks[u].BuildVariant, tasks[u].DisplayName) =
       DepsOf(project, Tv(tasks[t].BuildVariant, tasks[t].DisplayName))[i]

\* C9: a task that Extend adds to an existing build and that depends on a
\* task the Finalize created names that Task's id in DependsOn, and the
\* dependency keeps its single record, which the Extend did not create.
C9_ExtendResolvesToExistingTask ==
  \A r, q \in Calls : \A t \in req[r].created : \A u \in req[q].created : \A i \in 1..2 :
    ResolvesToFinalized(r, t, i, q, u) =>
      /\ tasks[t].DependsOn[i] = u
      /\ u \notin req[r].created
      /\ \A x \in DOMAIN tasks :
           (tasks[x].BuildVariant = tasks[u].BuildVariant
              /\ tasks[x].DisplayName = tasks[u].DisplayName) => x = u

C9_Witness ==
  \E r, q \in Calls : \E t \in req[r].created : \E u \in req[q].created : \E i \in 1..2 :
    ResolvesToFinalized(r, t, i, q, u) /\ Succeeded(r) /\ Before(q, r)

\* C10: when a call has returned successfully, each id in the DependsOn of a
\* Task it created is the id of a Task record of the same version.
C10_NoDanglingEdge ==
  \A r \in Calls :
    Succeeded(r) =>
      \A t \in {x \in req[r].created : IsTaskId(x)} :
        \A i \in DOMAIN tasks[t].DependsOn :
          /\ tasks[t].DependsOn[i] \in DOMAIN tasks
          /\ tasks[tasks[t].DependsOn[i]].Version = tasks[t].Version

NoRepeats(s) == \A i, j \in DOMAIN s : s[i] = s[j] => i = j

DanglingDependency(pairs) ==
  \E i \in DOMAIN pairs :
    /\ HasTask(project, pairs[i].Variant, pairs[i].TaskName)
    /\ \E j \in DOMAIN DepsOf(project, pairs[i]) :
         ~HasTask(project, DepsOf(project, pairs[i])[j].Variant,
                  DepsOf(project, pairs[i])[j].TaskName)

\* C12: a request for a task that declares a dependency on a variant or task
\* absent from the project returns UnresolvedDependency and creates no Build,
\* Task or Version record.
C12_UnresolvedDependencyRejected ==
  \A r \in Calls :
    ( /\ Done(r) /\ req[r].entry = "schedulePatch" /\ req[r].err # "StoreError"
      /\ DanglingDependency(VariantTasksToTVPairs(req[r].body)) )
    => req[r].err = "UnresolvedDependency" /\ req[r].created = {}

\* The unfolded traversal ends with the result of Include.
IncludeUnfolded == di.pc = "done" => di.out = Include(project, di.seed)

\* The pair a declared dependency `ref` of `pair` names.
Required(pair, ref) == Tv(IF ref.Variant = "" THEN pair.Variant ELSE ref.Variant, ref.Name)

Declared(pair) ==
  IF pair.TaskName \in DOMAIN project.Tasks THEN Range(project.Tasks[pair.TaskName]) ELSE {}

\* C13: the pairs IncludePatchDependencies returns contain every pair of the
\* seed, and with each pair every dependency its task declares, at the
\* variant the dependency names or else at the pair's own variant.
C13_ClosureComplete ==
  di.pc = "done" =>
    /\ Range(di.seed) \subseteq Range(di.pairs)
    /\ \A pair \in Range(di.pairs) : \A ref \in Declared(pair) :
         Required(pair, ref) \in Range(di.pairs)

\* The closure of a seed holds a pair of another variant than the seed's, and
\* a pair of the seed's variant, that the seed did not name.
C13_Witness ==
  /\ di.pc = "done"
  /\ \E pair \in Range(di.pairs) \ Range(di.seed) :
       \A s \in Range(di.seed) : s.Variant # pair.Variant
  /\ \E pair \in Range(di.pairs) \ Range(di.seed) :
       \E s \in Range(di.seed) : s.Variant = pair.Variant

\* C14: the pairs IncludePatchDependencies returns hold no pair twice, and
\* when no task of the seed declares a dependency they are the pairs of the
\* seed (in the seed's order when the seed names no pair twice).
C14_ClosureHasNoRepeats ==
  di.pc = "done" =>
    /\ NoRepeats(di.pairs)
    /\ (\A s \in Range(di.seed) : Declared(s) = {}) =>
         /\ Range(di.pairs) = Range(di.seed)
         /\ NoRepeats(di.seed) => di.pairs = di.seed

\* The seed named a pair twice and a pair was reached again after it had
\* been visited, a dependency having been added.
C14_Witness ==
  /\ di.pc = "done"
  /\ ~NoRepeats(di.seed)
  /\ di.visits > Len(di.out)
  /\ Range(di.pairs) # Range(di.seed)

\* C15: the traversal of the dependencyIncluder ends, also on projects whose
\* dependencies form a cycle, and a step expands only a pair that it has not
\* visited before.
C15_TraversalTerminates ==
  /\ <>(di.pc = "done")
  /\ [][Len(di'.out) > Len(di.out) =>
          /\ ~SliceContains(di.out, Head(di.queue))
          /\ di'.out = Append(di.out, Head(di.queue))]_vars

\* A traversal over a cycle of dependencies has ended, having met a visited
\* pair again.
C15_Witness ==
  /\ di.pc = "done"
  /\ project \in {ProjectCycle, ProjectCross}
  /\ di.visits > Len(di.out)
  /\ Len(di.out) > Len(di.seed)

\* C16: patch.Version becomes non-empty only in the step in which a Finalize
\* returns successfully, and once it is non-empty no step of a Finalize, an
\* Extend or a CancelPatch changes it.
C16_VersionSetOnce ==
  [][ /\ patch.Version # "" => patch'.Version = patch.Version
      /\ (patch.Version = "" /\ patch'.Version # "") =>
           \E r \in Calls :
             /\ req[r].path = "Finalize" /\ req[r].pc = "setActivated"
             /\ req'[r].pc = "done" /\ req'[r].err = "" ]_vars

\* The finalized patch has been cancelled and extended, and still names its version.
C16_Witness ==
  /\ patch.Version = VersionId
  /\ \E c, e \in Calls :
       /\ req[c].path = "Cancel" /\ Done(c) /\ req[c].p.Version # ""
       /\ req[e].path = "Extend" /\ Succeeded(e) /\ req[e].created # {}

\* C17: every step leaves each persisted Version in place with its BuildIds
\* and BuildVariants as they were or extended at the end, so the lists before
\* an Extend are a prefix of the lists after it.
C17_VersionListsGrow ==
  [][\A v \in DOMAIN versions :
       /\ v \in DOMAIN versions'
       /\ IsPrefix(versions[v].BuildIds, versions'[v].BuildIds)
       /\ IsPrefix(versions[v].BuildVariants, versions'[v].BuildVariants)]_vars

\* An Extend has appended the build of a new variant to the lists the
\* Finalize inserted.
C17_Witness ==
  \E r \in Calls :
    /\ Succeeded(r) /\ req[r].path = "Extend" /\ req[r].newBuildIds # <<>>
    /\ Len(versions[VersionId].BuildIds) > Len(req[r].newBuildIds)
    /\ Len(versions[VersionId].BuildVariants) > Len(req[r].newBuildStatuses)

\* C18: when schedulePatch has reloaded the patch it takes the Extend path if
\* the patch's Version is not empty and the Finalize path if it is empty, and
\* every later step of the request runs the protocol that matches the Version
\* of the patch the request holds.
C18_PathChosenByVersion ==
  [][\A r \in Calls :
       /\ (req[r].pc = "reload" /\ req'[r].pc # "reload") =>
            req'[r].path = (IF patch.Version # "" THEN "Extend" ELSE "Finalize")
       /\ ( /\ req[r].entry = "schedulePatch"
            /\ req[r].pc \notin {"idle", "reload", "done"}
            /\ req'[r] # req[r] ) =>
            /\ req[r].path = "Extend" <=> req[r].p.Version # ""
            /\ req[r].path = "Finalize" <=> req[r].p.Version = ""]_vars

\* Both paths were taken: a Finalize that failed had left task names on the
\* pending patch, the next request finalized it and a third extended it.
C18_Witness ==
  \E f, q, r \in Calls :
    /\ req[f].path = "Finalize" /\ Done(f) /\ req[f].err # "" /\ Len(req[f].p.Tasks) > 0
    /\ Before(f, q) /\ req[q].entry = "schedulePatch" /\ req[q].path = "Finalize"
    /\ Succeeded(q)
    /\ Before(q, r) /\ req[r].path = "Extend" /\ Succeeded(r)

\* The pairs of the explicit per-variant lists alone.
ExplicitPairs(variantsTasks) ==
  LET sizes == [i \in DOMAIN variantsTasks |-> Len(variantsTasks[i].Tasks)]
      places == {<<i, j>> \in (DOMAIN variantsTasks) \X (1..2) : j <= sizes[i]}
  IN {Tv(variantsTasks[pl[1]].Variant, variantsTasks[pl[1]].Tasks[pl[2]]) : pl \in places}

\* C19: a request that gives both VariantsTasks and the lists Variants and
\* Tasks is served, and its pairs are the pairs of VariantsTasks and none of
\* Variants x Tasks.
C19_ExplicitFormTakesPrecedence ==
  ( /\ di.pc = "done"
    /\ Len(di.body.VariantsTasks) > 0
    /\ Len(di.body.Variants) > 0 /\ Len(di.body.Tasks) > 0 )
  => /\ di.err = ""
     /\ Range(di.seed) = ExplicitPairs(di.body.VariantsTasks)

\* The documents a Finalize of `body` through schedulePatch leaves.
Finalized(body) ==
  LET p == SetVariantsTasks([PendingPatch EXCEPT !.Description = ""], body)
      made == FinalizeBuilds(project, p, body, <<>>, <<>>)
      v == [ Id |-> VersionId,
             BuildIds |-> [i \in DOMAIN body |-> BuildId(VersionId, body[i].Variant)],
             BuildVariants |->
               [i \in DOMAIN body |->
                  BuildStatus(body[i].Variant, BuildId(VersionId, body[i].Variant), TRUE)] ]
  IN [ patch |-> SetActivated(p, VersionId),
       versions |-> (VersionId :> v),
       builds |-> made.builds,
       tasks |-> made.tasks ]

\* f finalized the patch, then q and r, neither returning before the other
\* started, extended it with the same request, for pairs the project has; no
\* other request ran.
ExtendRace(f, q, r) ==
  /\ Finished = {f, q, r} /\ InFlight = {} /\ faults = 0 /\ q < r
  /\ \A i \in DOMAIN req[q].pairs :
       HasTask(project, req[q].pairs[i].Variant, req[q].pairs[i].TaskName)
  /\ req[f].entry = "schedulePatch" /\ req[f].path = "Finalize" /\ Succeeded(f)
  /\ req[f].before = {} /\ req[q].before = {f} /\ req[r].before = {f}
  /\ req[q].path = "Extend" /\ req[r].path = "Extend"
  /\ req[q].body = req[r].body

Wanted(r) ==
  LET me == req[r]
      none == [err |-> "none", builds |-> <<>>, tasks |-> <<>>]
  IN IF me.pc = "createBuild" /\ me.path = "Extend"
     THEN CreateBuildFromVersion(project, PatchVersion(me),
                                 NewPatchTaskIdTable(project, PatchVersion(me), me.p),
                                 me.newVariants[me.idx], me.p.Activated, me.p.Tasks,
                                 <<>>, <<>>)
     ELSE IF me.pc = "createBuild" /\ me.path = "Finalize"
     THEN CreateBuildFromVersion(project, me.pv, NewPatchTaskIdTable(project, me.pv, me.p),
                                 me.p.VariantsTasks[me.idx].Variant, TRUE,
                                 me.p.VariantsTasks[me.idx].Tasks, <<>>, <<>>)
     ELSE IF me.pc = "addTasksToBuild" /\ me.pv.BuildIds[me.idx] \in DOMAIN builds
     THEN LET b == builds[me.pv.BuildIds[me.idx]]
          IN AddTasksToBuild(b, project, PatchVersion(me), me.newTasks,
                             (b.Id :> [b EXCEPT !.TaskIds = <<>>]), <<>>)
     ELSE none

\* The ids r is about to insert that the store already holds.
Conflicting(r) ==
  (DOMAIN Wanted(r).tasks \cap DOMAIN tasks)
    \cup (IF req[r].pc = "createBuild" THEN DOMAIN Wanted(r).builds \cap DOMAIN builds ELSE {})

\* Every record in r's way was created by a request running at the same time
\* as r and is the record r would have inserted (a Build may list more Tasks).
ConflictOfExpectedShape(r) ==
  /\ Wanted(r).err = ""
  /\ Conflicting(r) # {}
  /\ \A id \in Conflicting(r) :
       /\ \E q \in Calls : Raced(q, r) /\ id \in req[q].created
       /\ IsTaskId(id) => tasks[id] = Wanted(r).tasks[id]
       /\ IsBuildId(id) =>
            [builds[id] EXCEPT !.TaskIds = <<>>] =
              [Wanted(r).builds[id] EXCEPT !.TaskIds = <<>>]

\* C21: a creation step of a Finalize or an Extend that meets a Build or Task
\* a concurrent request created with the expected shape does not return the
\* duplicate-key error: the request goes on, or returns successfully.
C21_ConflictIsNotAnError ==
  [][\A r \in Calls :
       (ConflictOfExpectedShape(r) /\ req'[r] # req[r]) =>
         ~(req'[r].pc = "done" /\ req'[r].err = "StoreConflict")]_vars

\* The Builds and Tasks r created are in the store, each Task listed by its Build.
CreatedPersist(r) ==
  \A x \in req[r].created :
    /\ IsBuildId(x) => x \in DOMAIN builds
    /\ IsTaskId(x) => x \in DOMAIN tasks /\ SliceContains(builds[tasks[x].BuildId].TaskIds, x)

C23_VersionLinkedLast ==
  patch.Version # "" =>
    /\ patch.Version \in DOMAIN versions
    /\ \E r \in Calls :
         /\ req[r].path = "Finalize" /\ Succeeded(r)
         /\ <<patch.Version>> \in req[r].created
         /\ \A b \in req[r].created :
              IsBuildId(b) => SliceContains(versions[patch.Version].BuildIds, b)

\* A Finalize failed and left patch.Version empty; the next one created two
\* builds, inserted the Version and linked it.
C23_Witness ==
  \E q, r \in Calls :
    /\ Before(q, r)
    /\ req[q].path = "Finalize" /\ Done(q) /\ req[q].err # "" /\ req[q].p.Version = ""
    /\ req[r].path = "Finalize" /\ Succeeded(r)
    /\ Cardinality({b \in req[r].created : IsBuildId(b)}) = 2
    /\ patch.Version = VersionId

\* The BuildStatus entries of the version document v for the build b.
StatusesOf(v, b) == {v.BuildVariants[i] : i \in {j \in DOMAIN v.BuildVariants :
                                                 v.BuildVariants[j].BuildId = b}}

\* C24: a Build that a Finalize created, and each of its Tasks, has Activated
\* TRUE, and so has the BuildStatus entry for it in the Version the Finalize
\* builds and inserts, while the patch the Finalize holds is not activated.
C24_FinalizeActivates ==
  \A r \in Calls :
    req[r].path = "Finalize" =>
      \A b \in {x \in req[r].created : IsBuildId(x)} :
        /\ builds[b].Activated
        /\ \A t \in {x \in req[r].created : IsTaskId(x)} : tasks[t].Activated
        /\ StatusesOf(req[r].pv, b) # {}
        /\ \A st \in StatusesOf(req[r].pv, b) : st.Activated
        /\ <<VersionId>> \in req[r].created =>
             /\ StatusesOf(versions[VersionId], b) # {}
             /\ \A st \in StatusesOf(versions[VersionId], b) : st.Activated

\* A Finalize holding a patch that is not activated has created two builds
\* and inserted the Version.
C24_Witness ==
  \E r \in Calls :
    /\ req[r].path = "Finalize" /\ req[r].pc = "setActivated"
    /\ ~req[r].p.Activated /\ ~patch.Activated
    /\ Cardinality({b \in req[r].created : IsBuildId(b) /\ builds[b].Activated}) = 2

PairOf(t) == Tv(tasks[t].BuildVariant, tasks[t].DisplayName)

\* C25: a Task that an Extend created names, for each dependency its task
\* declares whose Task a Finalize or the same Extend created, that Task's id
\* in DependsOn, in a build the Extend created as in a build it found.
C25_ExtendTableCoversUnion ==
  \A r \in Calls :
    req[r].path = "Extend" =>
      \A t \in {x \in req[r].created : IsTaskId(x)} :
        \A i \in DOMAIN DepsOf(project, PairOf(t)) :
          LET u == PairId(DepsOf(project, PairOf(t))[i])
          IN ( /\ u \in DOMAIN tasks
               /\ \/ u \in req[r].created
                  \/ \E q \in Calls : req[q].path = "Finalize" /\ u \in req[q].created )
             => tasks[t].DependsOn[i] = u

\* An Extend returned successfully after it gave an existing build a Task
\* that depends on a Task of a build it created later in the same call, and
\* gave that new build a Task that depends on a Task of the same batch.
C25_Witness ==
  \E r \in Calls :
    /\ Succeeded(r) /\ req[r].path = "Extend"
    /\ \E t, u \in req[r].created :
         /\ IsTaskId(t) /\ IsTaskId(u)
         /\ tasks[t].BuildId \notin req[r].created
         /\ tasks[u].BuildId \in req[r].created
         /\ SliceContains(tasks[t].DependsOn, u)
    /\ \E t, u \in req[r].created :
         /\ IsTaskId(t) /\ IsTaskId(u)
         /\ tasks[t].BuildId \in req[r].created
         /\ SliceContains(tasks[t].DependsOn, u)

\* An Extend created a build for a new variant with a Task that depends on a
\* Task the Finalize had created.
C25_WitnessBackward ==
  \E q, r \in Calls :
    /\ Succeeded(r) /\ req[r].path = "Extend" /\ req[q].path = "Finalize" /\ Succeeded(q)
    /\ \E t \in req[r].created : \E u \in req[q].created :
         /\ IsTaskId(t) /\ IsTaskId(u)
         /\ tasks[t].BuildId \in req[r].created
         /\ SliceContains(tasks[t].DependsOn, u)

\* C26: an Extend reaches the creation of builds only after its add-tasks
\* step: while it adds tasks it has created no build, the build it adds them
\* to is one it found, and the Tasks of a build it creates are created in the
\* one step that creates the build.
C26_AddTasksBeforeNewBuilds ==
  [][\A r \in Calls :
       /\ (req[r].pc \in {"addTasks", "addTasksToBuild"} /\ req'[r] # req[r]) =>
            /\ req[r].newBuildIds = <<>>
            /\ \A x \in req[r].created : ~IsBuildId(x)
            /\ \A t \in req'[r].created \ req[r].created :
                 tasks'[t].BuildId \in Range(req[r].pv.BuildIds) \ req'[r].created
       /\ (req[r].path = "Extend" /\ req[r].pc = "createBuild" /\ req'[r] # req[r]) =>
            \A t \in req[r].created : IsTaskId(t) => t \in DOMAIN tasks' /\ tasks'[t] = tasks[t]
       /\ (req[r].path = "Extend" /\ req[r].pc = "updateVersion") =>
            \A b \in Range(req[r].newBuildIds) : NoRepeats(builds[b].TaskIds)]_vars

\* An Extend that added a Task to the build it found has then created the
\* build of a new variant, and is about to record it in the Version.
C26_Witness ==
  \E r \in Calls :
    /\ req[r].path = "Extend" /\ req[r].pc = "updateVersion"
    /\ req[r].newTasks # <<>> /\ req[r].newBuildIds # <<>>
    /\ \E t \in req[r].created : IsTaskId(t) /\ tasks[t].BuildId \notin req[r].created
    /\ \E t \in req[r].created : IsTaskId(t) /\ tasks[t].BuildId \in Range(req[r].newBuildIds)

\* C27: when the put is optional and its single local file does not exist,
\* Put is called once, the retry does not call it again, PutWithRetry returns
\* nil after logging the skip, and AttachTaskFiles is not called.
C27_OptionalMissingFileSkipped ==
  (s3.Optional /\ ~s3.Multi /\ ~s3.Exists) =>
    /\ s3.attempts <= 1
    /\ s3.attached = 0
    /\ s3.put \in {"retried", "send", "exit"} =>
         s3.attempts = 1 /\ s3.err = errSkippedFile /\ ~s3.retryFail
    /\ s3.put \in {"send", "exit"} => s3.result = "" /\ s3.skipped
    /\ (s3.pc = "returned" /\ s3.Runs) => s3.ret = ""

\* The optional put of a missing file has returned nil through the select.
C27_Witness ==
  /\ s3.Optional /\ ~s3.Multi /\ ~s3.Exists
  /\ s3.put = "exit" /\ s3.pc = "returned" /\ s3.ret = ""
  /\ s3.attempts = 1 /\ s3.skipped

\* C28: after an Extend has returned successfully every pair it requested
\* that the project has, dependencies included, has its Task record.
C28_ExtendMaterializesRequest ==
  \A r \in Calls :
    (Succeeded(r) /\ req[r].path = "Extend") =>
      \A i \in DOMAIN req[r].pairs :
        HasTask(project, req[r].pairs[i].Variant, req[r].pairs[i].TaskName) =>
          PairId(req[r].pairs[i]) \in DOMAIN tasks

\* The pairs the body of r names are pairs of the project.
RequestsProjectPairs(r) ==
  \A pair \in Range(VariantTasksToTVPairs(req[r].body)) :
    HasTask(project, pair.Variant, pair.TaskName)

\* C29: every Task that an Extend for pairs of the project created is the
\* Task of a pair of its request's closure.
C29_ExtendCreatesOnlyRequested ==
  \A r \in Calls :
    (req[r].path = "Extend" /\ RequestsProjectPairs(r)) =>
      \A t \in {x \in req[r].created : IsTaskId(x)} : PairOf(t) \in Range(req[r].pairs)

\* C30: when a Finalize or an Extend has returned, each Build it created is
\* listed in the BuildIds of the persisted Version, which has a BuildVariants
\* entry with the Build's id.
C30_NoOrphanBuild ==
  \A r \in Calls :
    (Done(r) /\ req[r].path \in {"Finalize", "Extend"}) =>
      \A b \in {x \in req[r].created : IsBuildId(x)} :
        /\ builds[b].Version \in DOMAIN versions
        /\ SliceContains(versions[builds[b].Version].BuildIds, b)
        /\ StatusesOf(versions[builds[b].Version], b) # {}

\* C31: when Execute has returned on the stop signal while its goroutine was
\* still running PutWithRetry, it has returned nil and the goroutine comes to
\* its end, its send on errChan being received.
C31_StoppedPutTerminates ==
  /\ []((s3.pc = "returned" /\ s3.put \notin {"none", "exit"}) => s3.ret = "")
  /\ (s3.pc = "returned" /\ s3.put \notin {"none", "exit"}) ~> (s3.put = "exit")

\* C32: the result of TVPairsToVariantTasks has one entry per distinct
\* variant of its input and no other, each entry holds its variant's task
\* names in input order, and no entry has an empty variant name.
C32_OneEntryPerVariant ==
  conv.pc = "done" =>
    LET variants == {conv.in[i].Variant : i \in DOMAIN conv.in}
    IN /\ Len(conv.out) = Cardinality(variants)
       /\ \A i \in DOMAIN conv.out : conv.out[i].Variant # ""
       /\ \A v \in variants :
            /\ Cardinality({i \in DOMAIN conv.out : conv.out[i].Variant = v}) = 1
            /\ \A i \in DOMAIN conv.out :
                 conv.out[i].Variant = v =>
                   VariantTasksToTVPairs(<<conv.out[i]>>) =
                     SelectSeq(conv.in, LAMBDA pair : pair.Variant = v)

====
